---- MODULE Spec2Model ----
(***************************************************************************)
(* A model of package gocron (Cron.Run, MailAlert.Send/Msg,                *)
(* StaticFile.init/WriteAlert, Notification.init/Send).                    *)
(*                                                                         *)
(* One primary goroutine executes Cron.Run.  For every failed tick with    *)
(* Mail configured it starts one goroutine that calls Mail.Send, and then  *)
(* selects between the shared unbuffered channel mailchan and a timer.     *)
(* The sink is a file opened with O_APPEND by every WriteAlert call; the   *)
(* text is written through the process-wide standard logger, whose output  *)
(* is redirected by log.SetOutput and which drops write errors.            *)
(*                                                                         *)
(* Time is counted in seconds.                                             *)
(***************************************************************************)
EXTENDS Integers, Sequences, FiniteSets

\* ---------------------------------------------------------------- bounds

\* Job returns an error in at most MaxFail ticks of one run.
MaxFail == 2

\* Creating the temporary file and binding the listener take
\* 0..MaxElapsed seconds each.
MaxElapsed == 1

\* No sleep is started that would end after MaxTime.
MaxTime == 60

\* The (Interval, LifeTime) pairs a Cron is constructed with.
Configs ==
    { <<0, 0>>, <<0, 7>>, <<5, 0>>, <<5, 3>>, <<12, 24>> }

Elapsed == 0 .. MaxElapsed

\* ------------------------------------------------------- program constants

\* case <-time.After(10 * time.Second)
MailTimeout == 10

\* ------------------------------------------------------------------ state

VARIABLES
    c,          \* the Cron: Interval, LifeTime, Mail /= nil, Notif /= nil
    path,       \* c.File /= nil and c.File.Path /= ""
    listening,  \* the notification listener is bound (Notification.init)
    pc,         \* position of the goroutine running Cron.Run
    now,        \* time.Now()
    start,      \* start := time.Now()
    jobs,       \* number of c.Job() invocations
    sleeps,     \* number of time.Sleep(c.Interval) calls
    ev,         \* number of failed ticks so far; the current failure event
    selStart,   \* when the current select began (time.After's origin)
    g,          \* g[k]: position of the goroutine started for event k
    msg,        \* c.Mail.msg: the event whose alert it renders, 0 if ""
    wa,         \* wa[p]: the WriteAlert frame of writer p (0 is Run)
    logOut,     \* output of the standard logger (log.SetOutput)
    file,       \* the records in the file at c.File.Path, in write order
    exited,     \* log.Fatal has ended the process
    resolved,   \* resolved[k]: how event k's select ended: 0 not yet,
                \*   -1 by the timer, j > 0 by the signal of goroutine j
    sendRes,    \* sendRes[k]: outcome of event k's Mail.Send
    diskFull,   \* every write to the file fails with an I/O error (the file
                \*   can still be opened and created)
    listener,   \* position of the goroutine Notification.init starts
    jobErr,     \* jobErr != nil in the current tick
    notifErr    \* the failure events whose c.Notif.Send returned an error

vars ==
    << c, path, listening, pc, now, start, jobs, sleeps, ev, selStart, g, msg,
       wa, logOut, file, exited, resolved, sendRes, diskFull, listener,
       jobErr, notifErr >>

Events == 1 .. MaxFail

\* Writers of the sink: 0 is the goroutine of Run, k > 0 the mail goroutine
\* of event k.
Writers == 0 .. MaxFail

\* Values of logOut that are no open handle: os.Stderr (the logger's default)
\* and a handle that has been closed.
Stderr == -1
ClosedHandle == -2

NoFrame == [st |-> "idle", kind |-> "", ev |-> 0, quote |-> 0, wrote |-> FALSE]

\* A call WriteAlert(e) that has not yet executed its first statement.
Call(kind, k, quote) ==
    [st |-> "call", kind |-> kind, ev |-> k, quote |-> quote, wrote |-> FALSE]

\* The record log.Printf("%v", jobErr) writes.
Rec(f) == [kind |-> f.kind, ev |-> f.ev, quote |-> f.quote]

\* t.After(u) with receiver and argument exchanged.
AfterSwapped(t, u) == u > t

\* t.After(u)
After(t, u) == t > u

Init ==
    /\ c \in { [Interval |-> cf[1], LifeTime |-> cf[2], Mail |-> m, Notif |-> n] :
                 cf \in Configs, m \in BOOLEAN, n \in BOOLEAN }
    /\ path \in BOOLEAN
    /\ listening = FALSE
    /\ pc = "begin"
    /\ now = 0
    /\ start = 0
    /\ jobs = 0
    /\ sleeps = 0
    /\ ev = 0
    /\ selStart = 0
    /\ g = [k \in Events |-> "none"]
    /\ msg = 0
    /\ wa = [p \in Writers |-> NoFrame]
    /\ logOut = Stderr
    /\ file = << >>
    /\ exited = FALSE
    /\ resolved = [k \in Events |-> 0]
    /\ sendRes = [k \in Events |-> "none"]
    /\ diskFull \in BOOLEAN
    /\ listener = "none"
    /\ jobErr = FALSE
    /\ notifErr = {}

\* ------------------------------------------------------ StaticFile.WriteAlert

\* The handle writer p opened is still open: between os.OpenFile and the
\* deferred f.Close().
IsOpen(p) == p \in Writers /\ wa[p].st \in {"opened", "printed"}

\* Writer p is executing WriteAlert.
InWriteAlert(p) == IF p = 0 THEN pc = "write" ELSE g[p] = "write"

\* What the caller does with the result of WriteAlert (err: it is non-nil).
\* In Run: log.Fatal after a failed write of the notification failure or of
\* the job error, then the next statement; the result of the write of the
\* time out record is dropped.  In the mail goroutine: log.Fatal, or the send
\* on mailchan.
Returned(p, err) ==
    LET f == wa[p] IN
    IF p = 0
       THEN /\ g' = g
            /\ CASE f.kind = "timeout" ->
                      /\ pc' = "intervalCheck"
                      /\ wa' = [wa EXCEPT ![0] = NoFrame]
                      /\ exited' = exited
                 [] f.kind # "timeout" /\ err ->
                      /\ pc' = pc
                      /\ wa' = [wa EXCEPT ![0] = NoFrame]
                      /\ exited' = TRUE
                 [] f.kind = "noti" /\ ~err ->
                      /\ pc' = pc
                      /\ wa' = [wa EXCEPT ![0] = Call("job", f.ev, 0)]
                      /\ exited' = exited
                 [] f.kind = "job" /\ ~err ->
                      /\ pc' = "mailCheck"
                      /\ wa' = [wa EXCEPT ![0] = NoFrame]
                      /\ exited' = exited
       ELSE /\ pc' = pc
            /\ wa' = [wa EXCEPT ![p] = NoFrame]
            /\ IF err
               THEN g' = g /\ exited' = TRUE
               ELSE g' = [g EXCEPT ![p] = "chanSend"] /\ exited' = exited

\* f, err := os.OpenFile(s.Path, O_WRONLY|O_APPEND|O_CREATE, 0700); on an
\* error WriteAlert returns it, otherwise defer f.Close(); log.SetOutput(f).
WriteAlertOpen(p) ==
    /\ ~exited
    /\ InWriteAlert(p)
    /\ wa[p].st = "call"
    /\ \/ /\ wa' = [wa EXCEPT ![p].st = "opened"]
          /\ logOut' = p
          /\ UNCHANGED << pc, g, exited >>
       \/ /\ Returned(p, TRUE)
          /\ UNCHANGED logOut
    /\ UNCHANGED << c, path, listening, now, start, jobs, sleeps, ev, selStart,
                    msg, file, resolved, sendRes, diskFull,
                    listener, jobErr, notifErr >>

\* log.Printf("%v", jobErr): the standard logger writes to its current output,
\* which is the handle of the last log.SetOutput of any goroutine, and drops
\* the error of the write.  The write reaches the file only if that handle is
\* still open and the device accepts the write.
WriteAlertPrintf(p) ==
    /\ ~exited
    /\ InWriteAlert(p)
    /\ wa[p].st = "opened"
    /\ IF IsOpen(logOut) /\ ~diskFull
       THEN /\ file' = Append(file, Rec(wa[p]))
            /\ wa' = [wa EXCEPT ![p].st = "printed", ![p].wrote = TRUE]
       ELSE /\ file' = file
            /\ wa' = [wa EXCEPT ![p].st = "printed"]
    /\ UNCHANGED << c, path, listening, pc, now, start, jobs, sleeps, ev,
                    selStart, g, msg, logOut, exited, resolved, sendRes,
                    diskFull,
                    listener, jobErr, notifErr >>

\* return nil, running the deferred f.Close().
WriteAlertReturn(p) ==
    /\ ~exited
    /\ InWriteAlert(p)
    /\ wa[p].st = "printed"
    /\ logOut' = IF logOut = p THEN ClosedHandle ELSE logOut
    /\ Returned(p, FALSE)
    /\ UNCHANGED << c, path, listening, now, start, jobs, sleeps, ev, selStart,
                    msg, file, resolved, sendRes, diskFull,
                    listener, jobErr, notifErr >>

\* ------------------------------------------------------------------ Cron.Run

\* start := time.Now()
RunStart ==
    /\ ~exited
    /\ pc = "begin"
    /\ start' = now
    /\ pc' = "fileInit"
    /\ UNCHANGED << c, path, listening, now, jobs, sleeps, ev, selStart, g, msg,
                    wa, logOut, file, exited, resolved, sendRes, diskFull,
                    listener, jobErr, notifErr >>

\* c.File.init() followed by a second start = time.Now(), as if the start
\* time were taken after the initialisation.
FileInitRestart ==
    /\ ~exited
    /\ pc = "fileInit"
    /\ IF ~path
       THEN /\ \E d \in Elapsed : now' = now + d
            /\ \/ path' = TRUE /\ pc' = "notifInit" /\ exited' = exited
               \/ path' = path /\ pc' = pc /\ exited' = TRUE
       ELSE now' = now /\ path' = path /\ pc' = "notifInit" /\ exited' = exited
    /\ start' = now'
    /\ UNCHANGED << c, listening, jobs, sleeps, ev, selStart, g, msg, wa,
                    logOut, file, resolved, sendRes, diskFull,
                    listener, jobErr, notifErr >>

\* c.File = c.File.init(): a nil File or an empty Path is replaced by a fresh
\* temporary file; log.Fatal if that file cannot be created.
FileInit ==
    /\ ~exited
    /\ pc = "fileInit"
    /\ IF ~path
       THEN /\ \E d \in Elapsed : now' = now + d
            /\ \/ path' = TRUE /\ pc' = "notifInit" /\ exited' = exited
               \/ path' = path /\ pc' = pc /\ exited' = TRUE
       ELSE now' = now /\ path' = path /\ pc' = "notifInit" /\ exited' = exited
    /\ UNCHANGED << c, listening, start, jobs, sleeps, ev, selStart, g, msg, wa,
                    logOut, file, resolved, sendRes, diskFull,
                    listener, jobErr, notifErr >>

\* c.Notif.init() returning without the wait on hostc, as with a listener
\* started by a bare go statement.
NotifInitNoWait ==
    /\ ~exited
    /\ pc = "notifInit"
    /\ listener' = IF c.Notif THEN "started" ELSE listener
    /\ pc' = "job"
    /\ UNCHANGED << c, path, listening, now, start, jobs, sleeps, ev, selStart,
                    g, msg, wa, logOut, file, exited, resolved, sendRes,
                    diskFull, jobErr, notifErr >>

\* c.Notif.init(): nothing for a nil Notification; otherwise it starts the
\* listener goroutine and waits in <-hostc.
NotifInit ==
    /\ ~exited
    /\ pc = "notifInit"
    /\ IF c.Notif
       THEN listener' = "started" /\ pc' = "hostc"
       ELSE listener' = listener /\ pc' = "job"
    /\ UNCHANGED << c, path, listening, now, start, jobs, sleeps, ev, selStart,
                    g, msg, wa, logOut, file, exited, resolved, sendRes,
                    diskFull, jobErr, notifErr >>

\* The listener goroutine: net.ResolveTCPAddr and net.ListenTCP (log.Fatal on
\* an error of either), then n.Host = listener.Addr().String().
ListenerBind ==
    /\ ~exited
    /\ listener = "started"
    /\ \E d \in Elapsed : now' = now + d
    /\ \/ listening' = TRUE /\ listener' = "bound" /\ exited' = exited
       \/ listening' = listening /\ listener' = listener /\ exited' = TRUE
    /\ UNCHANGED << c, path, pc, start, jobs, sleeps, ev, selStart, g, msg, wa,
                    logOut, file, resolved, sendRes, diskFull, jobErr,
                    notifErr >>

\* hostc <- struct{}{} in the listener goroutine meets <-hostc in init, which
\* returns; the goroutine goes on to http.Serve.
HostcSync ==
    /\ ~exited
    /\ pc = "hostc"
    /\ listener = "bound"
    /\ pc' = "job"
    /\ listener' = "serving"
    /\ UNCHANGED << c, path, listening, now, start, jobs, sleeps, ev, selStart,
                    g, msg, wa, logOut, file, exited, resolved, sendRes,
                    diskFull, jobErr, notifErr >>

\* http.Serve returns an error: log.Fatalf.
ListenerServeFail ==
    /\ ~exited
    /\ listener = "serving"
    /\ exited' = TRUE
    /\ UNCHANGED << c, path, listening, pc, now, start, jobs, sleeps, ev,
                    selStart, g, msg, wa, logOut, file, resolved, sendRes,
                    diskFull, listener, jobErr, notifErr >>

\* c.Job() with the alert path taken whatever Job returns, as without the
\* test jobErr != nil.
JobAlwaysAlerts ==
    /\ ~exited
    /\ pc = "job"
    /\ jobs' = jobs + 1
    /\ ev < MaxFail
    /\ ev' = ev + 1
    /\ pc' = "notifSend"
    /\ jobErr' \in BOOLEAN
    /\ UNCHANGED << c, path, listening, now, start, sleeps, selStart, g, msg, wa,
                    logOut, file, exited, resolved, sendRes, diskFull,
                    listener, notifErr >>

\* if jobErr := c.Job(); jobErr != nil { ... }
Job ==
    /\ ~exited
    /\ pc = "job"
    /\ jobs' = jobs + 1
    /\ \/ jobErr' = FALSE /\ pc' = "intervalCheck" /\ ev' = ev
       \/ ev < MaxFail /\ jobErr' = TRUE /\ ev' = ev + 1 /\ pc' = "notifSend"
    /\ UNCHANGED << c, path, listening, now, start, sleeps, selStart, g, msg, wa,
                    logOut, file, exited, resolved, sendRes, diskFull,
                    listener, notifErr >>

\* if err := c.Notif.Send(jobErr); err != nil { WriteAlert(notiFail) ... };
\* WriteAlert(jobErr).  Send of a nil Notification returns nil; otherwise it
\* returns what running the command that opens the URL returns.
NotifSend ==
    /\ ~exited
    /\ pc = "notifSend"
    /\ \E err \in (IF c.Notif THEN BOOLEAN ELSE {FALSE}) :
         /\ wa' = [wa EXCEPT ![0] =
                     IF err THEN Call("noti", ev, 0) ELSE Call("job", ev, 0)]
         /\ notifErr' = IF err THEN notifErr \cup {ev} ELSE notifErr
    /\ pc' = "write"
    /\ UNCHANGED << c, path, listening, now, start, jobs, sleeps, ev, selStart,
                    g, msg, logOut, file, exited, resolved, sendRes, diskFull,
                    listener, jobErr >>

\* if c.Mail != nil { go func() { ... }(); select { ... } }
MailSpawn ==
    /\ ~exited
    /\ pc = "mailCheck"
    /\ IF c.Mail
       THEN /\ g' = [g EXCEPT ![ev] = "spawned"]
            /\ selStart' = now
            /\ pc' = "select"
       ELSE /\ g' = g
            /\ selStart' = selStart
            /\ pc' = "intervalCheck"
    /\ UNCHANGED << c, path, listening, now, start, jobs, sleeps, ev, msg, wa,
                    logOut, file, exited, resolved, sendRes, diskFull,
                    listener, jobErr, notifErr >>

\* MailAlert.Send, first statement: m.msg = fmt.Sprintf(..., alert), executed
\* by the goroutine started for event k.
MailSendBegin(k) ==
    /\ ~exited
    /\ g[k] = "spawned"
    /\ msg' = k
    /\ g' = [g EXCEPT ![k] = "sending"]
    /\ UNCHANGED << c, path, listening, pc, now, start, jobs, sleeps, ev,
                    selStart, wa, logOut, file, exited, resolved, sendRes, diskFull,
                    listener, jobErr, notifErr >>

\* MailAlert.Send returns in the goroutine of event k.  On nil the goroutine
\* ends.  On an error it builds mailFail from c.Mail.Msg() and calls
\* WriteAlert(mailFail).
MailSendReturn(k) ==
    /\ ~exited
    /\ g[k] = "sending"
    /\ \E err \in BOOLEAN :
         /\ sendRes' = [sendRes EXCEPT ![k] =
                          IF resolved[k] = 0
                          THEN (IF err THEN "errInTime" ELSE "okInTime")
                          ELSE (IF err THEN "errLate" ELSE "okLate")]
         /\ IF err
            THEN /\ g' = [g EXCEPT ![k] = "write"]
                 /\ wa' = [wa EXCEPT ![k] = Call("mailfail", k, msg)]
            ELSE /\ g' = [g EXCEPT ![k] = "done"]
                 /\ wa' = wa
    /\ UNCHANGED << c, path, listening, pc, now, start, jobs, sleeps, ev,
                    selStart, msg, logOut, file, exited, resolved, diskFull,
                    listener, jobErr, notifErr >>

\* select, case <-mailchan: the rendezvous with a goroutine blocked in
\* mailchan <- struct{}{}; that goroutine then ends.
MailchanRecv ==
    /\ ~exited
    /\ pc = "select"
    /\ \E k \in Events :
         /\ g[k] = "chanSend"
         /\ g' = [g EXCEPT ![k] = "done"]
         /\ resolved' = [resolved EXCEPT ![ev] = k]
    /\ pc' = "intervalCheck"
    /\ UNCHANGED << c, path, listening, now, start, jobs, sleeps, ev, selStart, msg,
                    wa, logOut, file, exited, sendRes, diskFull,
                    listener, jobErr, notifErr >>

\* The time out case taken only once Mail.Send has returned, as if the send
\* were awaited before the timer is looked at.
TimerFireAfterSend ==
    /\ ~exited
    /\ pc = "select"
    /\ g[ev] \notin {"spawned", "sending"}
    /\ now' = selStart + MailTimeout
    /\ resolved' = [resolved EXCEPT ![ev] = -1]
    /\ wa' = [wa EXCEPT ![0] = Call("timeout", ev, msg)]
    /\ pc' = "write"
    /\ UNCHANGED << c, path, listening, start, jobs, sleeps, ev, selStart, g,
                    msg, logOut, file, exited, sendRes, diskFull,
                    listener, jobErr, notifErr >>

\* select, case <-time.After(10 * time.Second): mailFail is built from
\* c.Mail.Msg() and c.File.WriteAlert(mailFail) is called.
TimerFire ==
    /\ ~exited
    /\ pc = "select"
    /\ now' = selStart + MailTimeout
    /\ resolved' = [resolved EXCEPT ![ev] = -1]
    /\ wa' = [wa EXCEPT ![0] = Call("timeout", ev, msg)]
    /\ pc' = "write"
    /\ UNCHANGED << c, path, listening, start, jobs, sleeps, ev, selStart, g,
                    msg, logOut, file, exited, sendRes, diskFull,
                    listener, jobErr, notifErr >>

\* The interval check without its break.
IntervalCheckNoBreak ==
    /\ ~exited
    /\ pc = "intervalCheck"
    /\ pc' = "sleep"
    /\ UNCHANGED << c, path, listening, now, start, jobs, sleeps, ev, selStart,
                    g, msg, wa, logOut, file, exited, resolved, sendRes,
                    diskFull,
                    listener, jobErr, notifErr >>

\* if c.Interval == 0 { break }
IntervalCheck ==
    /\ ~exited
    /\ pc = "intervalCheck"
    /\ pc' = IF c.Interval = 0 THEN "done" ELSE "sleep"
    /\ UNCHANGED << c, path, listening, now, start, jobs, sleeps, ev, selStart,
                    g, msg, wa, logOut, file, exited, resolved, sendRes, diskFull,
                    listener, jobErr, notifErr >>

\* time.Sleep(c.Interval) followed by start = time.Now(), as if the lifetime
\* were counted from the last tick.
SleepRestart ==
    /\ ~exited
    /\ pc = "sleep"
    /\ now + c.Interval <= MaxTime
    /\ now' = now + c.Interval
    /\ start' = now'
    /\ sleeps' = sleeps + 1
    /\ pc' = "lifeCheck"
    /\ UNCHANGED << c, path, listening, jobs, ev, selStart, g, msg, wa,
                    logOut, file, exited, resolved, sendRes, diskFull,
                    listener, jobErr, notifErr >>

\* time.Sleep(c.Interval)
Sleep ==
    /\ ~exited
    /\ pc = "sleep"
    /\ now + c.Interval <= MaxTime
    /\ now' = now + c.Interval
    /\ sleeps' = sleeps + 1
    /\ pc' = "lifeCheck"
    /\ UNCHANGED << c, path, listening, start, jobs, ev, selStart, g, msg, wa,
                    logOut, file, exited, resolved, sendRes, diskFull,
                    listener, jobErr, notifErr >>

\* time.Now().After(start.Add(c.LifeTime))
LifeTimeOver == After(now, start + c.LifeTime)

\* if time.Now().After(start.Add(c.LifeTime)) { return }
LifeCheck ==
    /\ ~exited
    /\ pc = "lifeCheck"
    /\ pc' = IF LifeTimeOver THEN "done" ELSE "job"
    /\ UNCHANGED << c, path, listening, now, start, jobs, sleeps, ev, selStart,
                    g, msg, wa, logOut, file, exited, resolved, sendRes, diskFull,
                    listener, jobErr, notifErr >>

\* ------------------------------------------------------------ specification

\* The steps of the goroutine that runs Cron.Run.
RunNext ==
    \/ RunStart
    \/ FileInit
    \/ NotifInit
    \/ HostcSync
    \/ Job
    \/ NotifSend
    \/ WriteAlertOpen(0)
    \/ WriteAlertPrintf(0)
    \/ WriteAlertReturn(0)
    \/ MailSpawn
    \/ MailchanRecv
    \/ TimerFire
    \/ IntervalCheck
    \/ Sleep
    \/ LifeCheck

\* The steps of the mail goroutine of event k.
MailNext(k) ==
    \/ MailSendBegin(k)
    \/ MailSendReturn(k)
    \/ WriteAlertOpen(k)
    \/ WriteAlertPrintf(k)
    \/ WriteAlertReturn(k)

\* The steps of the listener goroutine of Notification.init.
ListenerNext == ListenerBind \/ ListenerServeFail

Next == RunNext \/ ListenerNext \/ \E k \in Events : MailNext(k)

Spec == Init /\ [][Next]_vars

\* The Go scheduler runs every runnable goroutine, a timer that was started
\* fires, and Job, the notification command, the sleep and the listener's
\* bind return; nothing is assumed about Mail.Send, which may never return.
FairSpec == Spec /\ WF_vars(RunNext) /\ WF_vars(ListenerBind)

\* ------------------------------------------------------------------- claims

\* The positions in the file of the records of the given kinds written for
\* failure event k.
Recs(kinds, k) ==
    { i \in DOMAIN file : file[i].kind \in kinds /\ file[i].ev = k }

MailKinds == {"mailfail", "timeout"}

\* Run has got past c.File.WriteAlert(jobErr) of failure event k.
JobAlertReturned(k) ==
    \/ k < ev
    \/ k = ev /\ pc \notin {"notifSend", "write"}
    \/ k = ev /\ pc = "write" /\ wa[0].kind = "timeout"

\* Writer p's WriteAlert returns an error in this step.
ErrReturn(p) ==
    wa[p].st = "call" /\ wa'[p] # wa[p] /\ wa'[p].st # "opened"

\* Writer p's WriteAlert returns nil in this step.
NilReturn(p) == wa[p].st = "printed" /\ wa'[p].st # "printed"

\* C1: in every failed tick exactly one record carrying the job error is
\* appended, so once Run is past the write of event k's job error the file
\* holds exactly one job record of event k (and n of them after n failed
\* ticks).  Stated for a device that accepts every write.
C1_OneJobRecordPerFailedTick ==
    (~exited /\ ~diskFull) =>
        \A k \in Events :
            JobAlertReturned(k) => Cardinality(Recs({"job"}, k)) = 1

\* C2: if event k's Mail.Send returned nil before the timer fired, the file
\* never holds a mail-failure or time out record of event k.
C2_NoMailRecordAfterTimelySuccess ==
    \A k \in Events : sendRes[k] = "okInTime" => Recs(MailKinds, k) = {}

\* C3: the file never holds more than one mail-related record (mail-failure
\* or time out) of one failure event.
C3_AtMostOneMailRecord ==
    \A k \in Events : Cardinality(Recs(MailKinds, k)) <= 1

\* C4: with Interval > 0, Run returns only if LifeTime is set and the time
\* after the sleep is later than start + LifeTime.
C4_ReturnsOnlyPastSetLifeTime ==
    (pc = "done" /\ c.Interval > 0) =>
        (c.LifeTime > 0 /\ now > start + c.LifeTime)

\* C5: with Interval = 0, Job is invoked once, Run never sleeps and never
\* reaches the lifetime check, the interval check leads straight to the
\* return, and Run does end (it returns, or log.Fatal ends the process).
C5_RunOnceSafe ==
    c.Interval = 0 =>
        /\ jobs <= 1
        /\ sleeps = 0
        /\ pc \notin {"sleep", "lifeCheck"}
        /\ pc \in {"intervalCheck", "done"} => jobs = 1

C5_IntervalZeroRunsOnce ==
    /\ []C5_RunOnceSafe
    /\ [][(c.Interval = 0 /\ pc = "intervalCheck") => pc' = "done"]_pc
    /\ (c.Interval = 0) ~> (pc = "done" \/ exited)

C5_Witness ==
    /\ c.Interval = 0 /\ c.LifeTime > 0 /\ c.Mail
    /\ pc = "done" /\ jobs = 1 /\ ev = 1 /\ resolved[1] = -1

\* C6: with 0 < LifeTime < Interval, Job is invoked exactly once: the one
\* sleep ends after start + LifeTime and the lifetime check returns.  In
\* every configuration Job has been invoked once Run is past the first
\* c.Job().
C6_LifeTimeBelowInterval ==
    /\ (c.LifeTime > 0 /\ c.LifeTime < c.Interval) =>
          /\ jobs <= 1
          /\ sleeps <= 1
          /\ pc = "lifeCheck" => LifeTimeOver
          /\ pc = "done" => (jobs = 1 /\ sleeps = 1)
    /\ pc \notin {"begin", "fileInit", "notifInit", "hostc", "job"} => jobs >= 1

C6_Witness ==
    /\ c.LifeTime > 0 /\ c.LifeTime < c.Interval
    /\ pc = "done" /\ jobs = 1 /\ sleeps = 1

\* C7: whenever a WriteAlert call returns an error, whatever record it was
\* writing, the process ends in that step.
C7_SinkErrorIsFatal ==
    [][\A p \in Writers : ErrReturn(p) => exited']_vars

\* C8: WriteAlert returns nil only if its message was written to the file.
C8_NilOnlyIfWritten ==
    [][\A p \in Writers : NilReturn(p) => wa[p].wrote]_vars

\* C9: the file only grows by one record at its end, and every WriteAlert
\* call that returns nil has added its record, in every interleaving of the
\* calls of Run and of the mail goroutines.  Stated for a device that accepts
\* every write.
C9_AppendOnly ==
    [][~diskFull =>
          /\ file' # file => \E r \in {Rec(wa[p]) : p \in Writers} :
                                 file' = Append(file, r)
          /\ \A p \in Writers : NilReturn(p) => wa[p].wrote]_vars

\* C10: a select of Run always ends, also when Mail.Send never returns: Run
\* goes on to the interval check and then returns or sleeps and reaches the
\* lifetime check (unless log.Fatal ends the process).
C10_SelectNeverBlocksForever ==
    (pc = "select") ~> (pc \in {"done", "lifeCheck"} \/ exited)

C10_Witness ==
    /\ pc = "lifeCheck" /\ ~exited
    /\ ev \in Events
    /\ resolved[ev] = -1
    /\ g[ev] = "sending"

AllKinds == {"noti", "job", "mailfail", "timeout"}

\* C11: c.Notif.Send is the first alert step of a failed tick (nothing of the
\* event has been written or started when it is called), and once Run is past
\* the write of the job error of an event whose Send failed, the file holds
\* the event's notification failure record immediately before its job record.
\* Stated for a device that accepts every write.
C11_BrowserFailureBeforeJobFailure ==
    /\ pc = "notifSend" =>
          (Recs(AllKinds, ev) = {} /\ g[ev] = "none" /\ wa[0] = NoFrame)
    /\ (~exited /\ ~diskFull) =>
          \A k \in notifErr :
              JobAlertReturned(k) =>
                  \E i \in 1 .. (Len(file) - 1) :
                      /\ file[i] = [kind |-> "noti", ev |-> k, quote |-> 0]
                      /\ file[i + 1] = [kind |-> "job", ev |-> k, quote |-> 0]

\* C12: if event k's Mail.Send returned an error before the timer fired, the
\* file never holds a time out record of event k, and once the goroutine's
\* WriteAlert has returned it holds exactly one mail-failure record of event k
\* (on a device that accepts every write).
C12_TimelyMailFailureRecordedOnce ==
    \A k \in Events :
        sendRes[k] = "errInTime" =>
            /\ Recs({"timeout"}, k) = {}
            /\ (~diskFull /\ g[k] \in {"chanSend", "done"}) =>
                  Cardinality(Recs({"mailfail"}, k)) = 1

\* C13: a nil channel is inert.  With Mail = nil no mail goroutine is started,
\* Run never waits in the select, no select is resolved and the file holds no
\* mail-failure or time out record; with Notif = nil no Send fails and the file
\* holds no notification failure record; and in both cases, once Run is past
\* the write of event k's job error, the file holds a job record of event k
\* (on a device that accepts every write).
C13_NilChannelInert ==
    /\ ~c.Mail =>
          /\ pc # "select"
          /\ \A k \in Events :
                 g[k] = "none" /\ resolved[k] = 0 /\ Recs(MailKinds, k) = {}
    /\ ~c.Notif =>
          /\ notifErr = {}
          /\ \A k \in Events : Recs({"noti"}, k) = {}
    /\ ((~c.Mail \/ ~c.Notif) /\ ~exited /\ ~diskFull) =>
          \A k \in Events : JobAlertReturned(k) => Recs({"job"}, k) # {}

\* C14: at most one WriteAlert call is in progress at any time: the calls of
\* Run never overlap with the call of a mail goroutine.
C14_OneWriterAtATime ==
    Cardinality({ p \in Writers : wa[p] # NoFrame }) <= 1

\* The positions of Run up to the return of c.Notif.init().
InitPositions == {"begin", "fileInit", "notifInit", "hostc"}

\* C15: when c.Notif.init() has returned, the listener is bound, n.Host holds
\* its address and the listener goroutine is past the send on hostc; so with
\* Notif configured no c.Job() and no c.Notif.Send happens before that.
C15_InitWaitsForListener ==
    /\ (c.Notif /\ pc \notin InitPositions) =>
          (listening /\ listener = "serving")
    /\ (c.Notif /\ ~listening) => (jobs = 0 /\ ev = 0 /\ notifErr = {})
    /\ ~c.Notif => (listener = "none" /\ ~listening)

C15_Witness ==
    /\ c.Notif /\ listening /\ listener = "serving"
    /\ pc = "write" /\ jobs = 1 /\ 1 \in notifErr

\* C16: with Interval > 0 and LifeTime > 0 the start time is never changed
\* once Run has recorded it; the lifetime check after a sleep returns exactly
\* if the time is later than start + LifeTime and otherwise goes on with the
\* next tick; and Run ends (it returns, or log.Fatal ends the process).
C16_CutoffFixedAtStart ==
    /\ [][pc # "begin" => start' = start]_vars
    /\ [][(c.Interval > 0 /\ c.LifeTime > 0 /\ pc = "lifeCheck" /\ pc' # pc) =>
             ((now > start + c.LifeTime => pc' = "done") /\
              (now <= start + c.LifeTime => pc' = "job"))]_vars
    /\ [](c.Interval > 0 /\ c.LifeTime > 0 /\ pc = "done" =>
             (sleeps >= 1 /\ now > start + c.LifeTime))
    /\ (c.Interval > 0 /\ c.LifeTime > 0) ~> (pc = "done" \/ exited)

C16_Witness ==
    /\ c.Interval = 12 /\ c.LifeTime = 24
    /\ pc = "done" /\ sleeps = 3 /\ now = start + 36

\* C17 (as stated): the start time is recorded after the initialisation of
\* the file and of the notification, so at the first c.Job() no time has
\* passed since the start time.
C17_StartRecordedAfterInit ==
    (pc = "job" /\ jobs = 0) => now = start

\* C17 (amended): Run records the start time as its first step, before the
\* file and the notification are initialised; the initialisation does not
\* record it again, so the time it takes has passed since the start time when
\* the first c.Job() is invoked.
C17_StartRecordedBeforeInit ==
    /\ [][pc = "begin" =>
             (pc' = "fileInit" /\ start' = now /\ now' = now /\
              path' = path /\ listening' = listening /\ listener' = "none")]_vars
    /\ [][(pc \in InitPositions /\ pc # "begin") =>
             (start' = start /\ now <= now')]_vars
    /\ [](pc = "begin" => (~listening /\ listener = "none" /\ jobs = 0))

C17_Witness ==
    /\ c.Interval = 12 /\ c.LifeTime = 24 /\ c.Notif
    /\ pc = "done" /\ sleeps = 2 /\ ev = 0 /\ now = start + 26

\* C18: in a tick in which Job returned nil, Run is never at c.Notif.Send, in
\* WriteAlert, at the start of the mail goroutine or in the select; the step
\* in which Job returns nil goes to the interval check and changes nothing of
\* the alerts; and while such a tick lasts no goroutine is started, no Send is
\* recorded as failed and no select is resolved.
C18_NilJobNoAlert ==
    /\ [](~jobErr =>
             /\ pc \in InitPositions \cup
                       {"job", "intervalCheck", "sleep", "lifeCheck", "done"}
             /\ wa[0] = NoFrame)
    /\ [][(jobs' # jobs /\ ~jobErr') =>
             (pc' = "intervalCheck" /\
              ev' = ev /\ g' = g /\ wa' = wa /\ file' = file /\
              resolved' = resolved /\ notifErr' = notifErr /\ msg' = msg /\
              logOut' = logOut /\ now' = now)]_vars
    /\ [][(~jobErr /\ ~jobErr') =>
             (ev' = ev /\ notifErr' = notifErr /\ resolved' = resolved /\
              \A k \in Events : g[k] = "none" => g'[k] = "none")]_vars

C18_Witness ==
    /\ ~jobErr /\ pc = "lifeCheck" /\ jobs = 2 /\ ev = 1
    /\ g[1] = "sending" /\ resolved[1] = -1

\* C19: the select of failure event k ends by the timer or by the signal of
\* the goroutine started for event k, never by the signal of the goroutine
\* of another event.
C19_OwnSignalOnly ==
    \A k \in Events : resolved[k] \in {0, -1, k}

\* C20: when Run has returned, no mail goroutine is blocked in the send on
\* mailchan (nothing receives from mailchan after the return).
C20_NoGoroutineLeftBlocked ==
    pc = "done" => \A k \in Events : g[k] # "chanSend"

\* C21: every mail-failure or time out record built for failure event k
\* quotes the message Send rendered from event k's job error: neither the
\* argument of a WriteAlert call in progress nor a record in the file quotes
\* the message of another event or the empty initial value of c.Mail.msg.
C21_MailRecordQuotesOwnMessage ==
    /\ \A p \in Writers : wa[p].kind \in MailKinds => wa[p].quote = wa[p].ev
    /\ \A i \in DOMAIN file :
           file[i].kind \in MailKinds => file[i].quote = file[i].ev

====
